---------------------------- MODULE Spec2Model ----------------------------
(***************************************************************************)
(* The programs of superbridge-watcher.                                    *)
(*                                                                         *)
(* The unified watcher+executor (src/unnamed/part_000, lines 67-469): a    *)
(* setInterval callback that scans the L2 chain for BridgeInitiated and    *)
(* Refunded events past a block cursor, records them in the bridged_events *)
(* table, pays out on L1 with retries and completes on L2.                 *)
(*                                                                         *)
(* The watcher without executor (src/watcher.js): a setInterval callback   *)
(* that scans the last 1000 blocks in every tick, records the events and   *)
(* makes one payout attempt per event.  A run is a run of one of the two   *)
(* programs (scope.program).                                               *)
(*                                                                         *)
(* The clearFirst200 script (src/unnamed/part_000, lines 1-65), which      *)
(* deletes the first 200 rows of bridged_events and can be run while a     *)
(* watcher runs.                                                           *)
(*                                                                         *)
(* Every `await` is one step of the model: the action named after the      *)
(* awaited call is the resolution of that call followed by the synchronous *)
(* code that runs up to the next await.  setInterval does not wait for the *)
(* promise of an async callback, so several invocations of the callback    *)
(* can be in flight; they interleave at the awaits.                        *)
(*                                                                         *)
(* The two chains and the record store are the environment.  The L2        *)
(* contract is not part of the repository: the model lets it emit one      *)
(* BridgeInitiated and one Refunded event per transfer, lets another actor *)
(* move a pending transfer to Completed or to an unknown status, and lets  *)
(* every call of the watcher to a chain or to the store fail.              *)
(***************************************************************************)
EXTENDS Integers, Sequences, FiniteSets, TLC

VARIABLES
    chain,             \* L2 chain: chain[b] is the event emitted in block b
    l2status,          \* L2 contract: getTransfer(id).status
    store,             \* bridged_events table: tx_id -> row
    lastCheckedBlock,  \* the module-level block cursor
    loc,               \* loc[c]: the local variables of callback invocation c
    payouts,           \* payouts[id]: L1 payout transactions included for id
    completes,         \* completes[id]: L2 complete transactions submitted for id
    inserts,           \* inserts[id]: inserts of id the record store accepted
    last,              \* what the last step did: a record-store call, a failed
                       \* log query, a tick end
    clear,             \* the run of the clearFirst200 script: the await it is
                       \* suspended at, the tx_ids it selected, the runs made
    scope              \* the run: the program that runs (the unified
                       \* watcher+executor or src/watcher.js), its transfers,
                       \* the invocations that may overlap, whether external
                       \* calls still fail, whether the contract emits
                       \* Refunded for a settled transfer

vars == <<chain, l2status, store, lastCheckedBlock, loc, payouts, completes,
          inserts, last, clear, scope>>

(***************************************************************************)
(* Bounds of the model: the L2 blocks mined in a behaviour, and the value  *)
(* at which the counters payouts, completes and inserts stop counting, and *)
(* the number of times the clearFirst200 script is run.                    *)
(***************************************************************************)
MaxBlock == 2
CountCap == 2
MaxClears == 1

Ids == {"a", "b"}
Callbacks == {1, 2}
Programs == {"unified", "watcher"}

(***************************************************************************)
(* Program constants.                                                      *)
(***************************************************************************)
ChunkSpan == 499
Lookback == 200
WatcherLookback == 1000
ClearLimit == 200
StatusPending == 0
StatusCompleted == 1
StatusRefunded == 2
StatusValues == {StatusPending, StatusCompleted, StatusRefunded, 3}

Min(x, y) == IF x < y THEN x ELSE y
Max(x, y) == IF x > y THEN x ELSE y

RECURSIVE Pow(_, _)
Pow(b, e) == IF e = 0 THEN 1 ELSE b * Pow(b, e - 1)

NoEvent == [kind |-> "None", transferId |-> "-"]

head == Len(chain)

Initiated(id) ==
    \E b \in 1..head : chain[b] = [kind |-> "BridgeInitiated", transferId |-> id]

RefundEmitted(id) ==
    \E b \in 1..head : chain[b] = [kind |-> "Refunded", transferId |-> id]

(***************************************************************************)
(* getStartingBlock: the cursor the process starts from.                   *)
(***************************************************************************)
getStartingBlock(currentBlock) == Max(0, currentBlock - Lookback)

\* src/watcher.js: const startingBlock = Math.max(0, currentBlock - 1000),
\* at startup and again in every tick
startingBlock(currentBlock) == Max(0, currentBlock - WatcherLookback)

(***************************************************************************)
(* l2.queryFilter(filter, fromBlock, toBlock): the events of one kind in   *)
(* the blocks fromBlock..toBlock, in chain order.  Block 0, the genesis    *)
(* block, holds no event of the bridge contract.                           *)
(***************************************************************************)
queryFilter(kind, fromBlock, toBlock) ==
    LET first == Max(fromBlock, 1)
        n == Max(0, Min(toBlock, head) - first + 1)
        logs == [i \in 1..n |->
                    [transferId |-> chain[first + i - 1].transferId,
                     blockNumber |-> first + i - 1]]
        Matches(log) == chain[log.blockNumber].kind = kind
    IN  SelectSeq(logs, Matches)

\* (variant: a window of fromBlock + 500)
ToBlock_Span501(fromBlock, currentBlock) ==
    Min(fromBlock + ChunkSpan + 1, currentBlock)

\* const toBlock = Math.min(fromBlock + 499, currentBlock);
ToBlock(fromBlock, currentBlock) == Min(fromBlock + ChunkSpan, currentBlock)


(***************************************************************************)
(* The local variables of one invocation of the setInterval callback.      *)
(* pc names the await the invocation is suspended at.  The fields          *)
(* processed, attempts, waits and evLog are history of the current         *)
(* tick or event, scanFrom and subQueries are history of the current query *)
(* loop: they record what the code did and are never read by it.           *)
(***************************************************************************)
NoStatus == 0 - 1

EventLocals ==
    [existing |-> <<>>, statusNum |-> NoStatus, retryCount |-> 0,
     payoutSuccess |-> FALSE, payoutBlock |-> 0, doubleCheck |-> NoStatus,
     attempts |-> 0, waits |-> <<>>, evLog |-> <<>>]

IdleLoc ==
    [pc |-> "idle", currentBlock |-> 0, fromBlock |-> 0,
     bridgeEvents |-> <<>>, refundEvents |-> <<>>, evIdx |-> 0,
     processed |-> 0, scanFrom |-> 0, subQueries |-> <<>>] @@ EventLocals

ResetEvent(l) ==
    [f \in DOMAIN l |-> IF f \in DOMAIN EventLocals THEN EventLocals[f] ELSE l[f]]

\* the record-store call of a step, for the steps that make one
Op(name, transferId, prior, blockNumber) ==
    [op |-> name, id |-> transferId, prior |-> prior, block |-> blockNumber,
     from |-> 0, queries |-> <<>>]

\* the step ended a query loop: the sub-ranges it queried, from scanFrom on
ScanDone(name, l) ==
    [Op(name, "-", "-", l.currentBlock) EXCEPT
        !.from = l.scanFrom, !.queries = l.subQueries]

NoOp == Op("none", "-", "-", 0)

NoTick == [tick |-> "none", head |-> 0, scanned |-> 0, processed |-> 0]

NoOutcome == NoTick @@ NoOp

PriorStatus(table, transferId) ==
    IF transferId \in DOMAIN table THEN table[transferId].status ELSE "absent"

(***************************************************************************)
(* Control flow between the awaits.  A local record whose pc is "advance", *)
(* "catch", "return" or "end" has left the callback body: by the           *)
(* assignment lastCheckedBlock = currentBlock, through the catch of the    *)
(* callback, by the early return of a tick that found no new block, or, in *)
(* src/watcher.js, by the end of the try block, which writes no cursor.    *)
(***************************************************************************)
StartRefunds(l) ==
    IF Len(l.refundEvents) > 0
    THEN [ResetEvent(l) EXCEPT !.pc = "refundUpdate", !.evIdx = 1]
    ELSE [l EXCEPT !.pc = "advance"]

\* fromBlock is not read after the two query loops
StartEvents(l) ==
    LET m == [l EXCEPT !.fromBlock = 0, !.scanFrom = 0, !.subQueries = <<>>] IN
    IF Len(m.bridgeEvents) > 0
    THEN [ResetEvent(m) EXCEPT !.pc = "select", !.evIdx = 1]
    ELSE StartRefunds(m)

NextEvent(l) ==
    LET m == [l EXCEPT !.processed = @ + 1] IN
    IF m.evIdx < Len(m.bridgeEvents)
    THEN [ResetEvent(m) EXCEPT !.pc = "select", !.evIdx = m.evIdx + 1]
    ELSE StartRefunds(m)

NextRefund(l) ==
    LET m == [l EXCEPT !.processed = @ + 1] IN
    IF m.evIdx < Len(m.refundEvents)
    THEN [m EXCEPT !.evIdx = @ + 1]
    ELSE [m EXCEPT !.pc = "advance"]

\* (variant: the cursor assignment in a finally block)
TickCatch_Advances(cursor, currentBlock) == currentBlock

\* catch (err) { console.error('Error polling for events:', err); }
TickCatch(cursor, currentBlock) == cursor

\* lastCheckedBlock = currentBlock, the last statement of the try block
TickAdvance(cursor, currentBlock) == currentBlock

TickEnds == {"advance", "catch", "return", "end"}

Finish(c, l, op) ==
    /\ loc' = [loc EXCEPT ![c] = IF l.pc \in TickEnds THEN IdleLoc ELSE l]
    /\ lastCheckedBlock' =
         CASE l.pc = "advance" -> TickAdvance(lastCheckedBlock, l.currentBlock)
           [] l.pc = "catch"   -> TickCatch(lastCheckedBlock, l.currentBlock)
           [] OTHER            -> lastCheckedBlock
    /\ last' =
         (IF l.pc \in TickEnds
          THEN [tick |-> l.pc, head |-> l.currentBlock,
                scanned |-> Len(l.bridgeEvents) + Len(l.refundEvents),
                processed |-> l.processed]
          ELSE NoTick) @@ op

(***************************************************************************)
(* An external call (chain RPC, record store) either succeeds or fails;    *)
(* once the outage of a run is over (scope.healed) every call succeeds.    *)
(***************************************************************************)
Results == IF scope.healed THEN {"ok"} ELSE {"ok", "fail"}

(***************************************************************************)
(* The environment: the L2 chain grows by one block, which holds at most   *)
(* one event of the bridge contract.                                       *)
(***************************************************************************)
BlockEvents ==
    {NoEvent}
    \cup {[kind |-> "BridgeInitiated", transferId |-> id] :
              id \in {i \in scope.ids : ~Initiated(i)}}
    \cup {[kind |-> "Refunded", transferId |-> id] :
              id \in {i \in Ids : /\ Initiated(i)
                                  /\ ~RefundEmitted(i)
                                  /\ scope.refundAny
                                       \/ l2status[i] = StatusPending}}

MineBlock ==
    /\ head < MaxBlock
    /\ \E e \in BlockEvents :
         /\ chain' = Append(chain, e)
         /\ l2status' =
              IF e.kind = "Refunded" /\ l2status[e.transferId] = StatusPending
              THEN [l2status EXCEPT ![e.transferId] = StatusRefunded]
              ELSE l2status
    /\ last' = NoOutcome
    /\ UNCHANGED <<scope, clear, inserts, store, lastCheckedBlock, loc, payouts, completes>>

(***************************************************************************)
(* The environment: another actor moves a pending transfer on L2 (another  *)
(* completer, or a state this watcher does not know).                      *)
(***************************************************************************)
L2StatusChange ==
    /\ \E id \in Ids, s \in StatusValues \ {StatusPending, StatusRefunded} :
         /\ Initiated(id)
         /\ l2status[id] = StatusPending
         /\ l2status' = [l2status EXCEPT ![id] = s]
    /\ last' = NoOutcome
    /\ UNCHANGED <<scope, clear, inserts, chain, store, lastCheckedBlock, loc, payouts, completes>>

(***************************************************************************)
(* setInterval fires: a new invocation of the callback starts and awaits   *)
(* l2Provider.getBlockNumber().                                            *)
(***************************************************************************)
TimerFire(c) ==
    /\ loc[c].pc = "idle"
    /\ c <= scope.slots
    /\ \A d \in Callbacks : d < c => loc[d].pc # "idle"
    /\ loc' = [loc EXCEPT ![c] = [IdleLoc EXCEPT !.pc = "getBlockNumber"]]
    /\ last' = NoOutcome
    /\ UNCHANGED <<scope, clear, inserts, chain, l2status, store, lastCheckedBlock, payouts, completes>>

(***************************************************************************)
(* const currentBlock = await l2Provider.getBlockNumber();                 *)
(* if (currentBlock <= lastCheckedBlock) return;                           *)
(* let fromBlock = lastCheckedBlock + 1;                                   *)
(***************************************************************************)
\* if (currentBlock <= lastCheckedBlock) return;
NoNewBlock(currentBlock, cursor) == currentBlock <= cursor

GetBlockNumber(c) ==
    /\ scope.program = "unified"
    /\ loc[c].pc = "getBlockNumber"
    /\ \E res \in Results :
         LET l == loc[c]
             m == [l EXCEPT !.currentBlock = head] IN
         Finish(c,
           IF res = "fail" THEN [l EXCEPT !.pc = "catch"]
           ELSE IF NoNewBlock(m.currentBlock, lastCheckedBlock)
                THEN [m EXCEPT !.pc = "return"]
                ELSE [m EXCEPT !.pc = "queryBridge",
                               !.fromBlock = lastCheckedBlock + 1,
                               !.scanFrom = lastCheckedBlock + 1], NoOp)
    /\ UNCHANGED <<scope, clear, inserts, chain, l2status, store, payouts, completes>>

\* (variant: a query loop that logs a failed sub-range and goes on)
QueryRejected_Skips(l, toBlock) == [l EXCEPT !.fromBlock = toBlock + 1]

\* a rejected l2.queryFilter is not caught by the query loop: it leaves the
\* try block of the callback
QueryRejected(l, toBlock) == [l EXCEPT !.pc = "catch"]

\* the step was a sub-range query that failed
QueryError == Op("queryError", "-", "-", 0)

(***************************************************************************)
(* One sub-range query of the BridgeInitiated loop.  When the loop ends    *)
(* the Refunded loop starts from lastCheckedBlock + 1, read again.         *)
(***************************************************************************)
QueryBridge(c) ==
    /\ scope.program = "unified"
    /\ loc[c].pc = "queryBridge"
    /\ \E res \in Results :
         LET l == loc[c]
             toBlock == ToBlock(l.fromBlock, l.currentBlock)
             m == [l EXCEPT
                     !.bridgeEvents =
                         @ \o queryFilter("BridgeInitiated", l.fromBlock, toBlock),
                     !.subQueries = Append(@, <<l.fromBlock, toBlock>>),
                     !.fromBlock = toBlock + 1]
             r == [m EXCEPT !.fromBlock = lastCheckedBlock + 1,
                            !.scanFrom = lastCheckedBlock + 1,
                            !.subQueries = <<>>] IN
         Finish(c,
           IF res = "fail" THEN QueryRejected(l, toBlock)
           ELSE IF m.fromBlock <= m.currentBlock THEN m
           ELSE IF r.fromBlock <= r.currentBlock
                THEN [r EXCEPT !.pc = "queryRefund"]
                ELSE StartEvents(r),
           IF res = "fail" THEN QueryError
           ELSE IF m.fromBlock <= m.currentBlock THEN NoOp
           ELSE ScanDone("scanBridge", m))
    /\ UNCHANGED <<scope, clear, inserts, chain, l2status, store, payouts, completes>>

(***************************************************************************)
(* One sub-range query of the Refunded loop.  When the loop ends the       *)
(* processing of the BridgeInitiated events starts.                        *)
(***************************************************************************)
QueryRefund(c) ==
    /\ scope.program = "unified"
    /\ loc[c].pc = "queryRefund"
    /\ \E res \in Results :
         LET l == loc[c]
             toBlock == ToBlock(l.fromBlock, l.currentBlock)
             m == [l EXCEPT
                     !.refundEvents =
                         @ \o queryFilter("Refunded", l.fromBlock, toBlock),
                     !.subQueries = Append(@, <<l.fromBlock, toBlock>>),
                     !.fromBlock = toBlock + 1] IN
         Finish(c,
           IF res = "fail" THEN QueryRejected(l, toBlock)
           ELSE IF m.fromBlock <= m.currentBlock THEN m
           ELSE StartEvents(m),
           IF res = "fail" THEN QueryError
           ELSE IF m.fromBlock <= m.currentBlock THEN NoOp
           ELSE ScanDone("scanRefund", m))
    /\ UNCHANGED <<scope, clear, inserts, chain, l2status, store, payouts, completes>>


(***************************************************************************)
(* The bridged_events table, keyed by tx_id.                               *)
(***************************************************************************)
NoSignature == [signer |-> "", transferId |-> ""]

\* signMessage: the signature of SIGNER_KEY over the digest of the transfer
signMessage(transferId) == [signer |-> "SIGNER_KEY", transferId |-> transferId]

\* .select('tx_id').eq('tx_id', transferId)
SelectRows(table, transferId) ==
    IF transferId \in DOMAIN table THEN <<[tx_id |-> transferId]>> ELSE <<>>

\* (variant: the test on the error instead of the rows)
Exists_Never(existing) == FALSE

\* if (existing && existing.length > 0) continue;
Exists(existing) == Len(existing) > 0

\* the row of the insert call
InsertRow(event) ==
    [status |-> "pending", block_number |-> event.blockNumber,
     l1_block_number |-> 0, signature1 |-> NoSignature]

\* (variant: .upsert([row]), which overwrites an existing tx_id)
InsertResult_Upsert(table, transferId, res) ==
    IF res = "fail" THEN "error" ELSE "ok"

\* .insert([row]): an insert on an existing tx_id fails with a conflict
InsertResult(table, transferId, res) ==
    IF res = "fail" THEN "error"
    ELSE IF transferId \in DOMAIN table THEN "conflict"
    ELSE "ok"

\* (variant: l1_block_number taken from the row's source block)
CompleteRow_SourceBlock(row, l1BlockNumber, signature) ==
    [row EXCEPT !.status = "Completed", !.l1_block_number = row.block_number,
                !.signature1 = signature]

\* updateData of updateSupabaseComplete
CompleteRow(row, l1BlockNumber, signature) ==
    [row EXCEPT !.status = "Completed", !.l1_block_number = l1BlockNumber,
                !.signature1 = signature]

\* (variant: a refund update guarded on the pending status)
RefundRow_Guarded(row) ==
    IF row.status = "pending" THEN [row EXCEPT !.status = "refunded"] ELSE row

\* .update({ status: 'refunded' })
RefundRow(row) == [row EXCEPT !.status = "refunded"]

\* .update(data).eq('tx_id', transferId): changes the rows that match
UpdateRows(table, transferId, newRow) ==
    IF transferId \in DOMAIN table
    THEN [table EXCEPT ![transferId] = newRow]
    ELSE table

(***************************************************************************)
(* The decisions of the event loop.                                        *)
(***************************************************************************)
\* (variant: every status but Refunded is processed)
IsPending_NotRefunded(statusNum) == statusNum # StatusRefunded

\* if (statusNum === 0n || statusNum === 0)
IsPending(statusNum) == statusNum = StatusPending

maxRetries == 3

\* (variant: off by one in the attempt limit)
LoopContinues_OffByOne(retryCount, payoutSuccess) ==
    retryCount <= maxRetries /\ ~payoutSuccess

\* while (retryCount < maxRetries && !payoutSuccess)
LoopContinues(retryCount, payoutSuccess) ==
    retryCount < maxRetries /\ ~payoutSuccess

\* if (retryCount < maxRetries) await sleep(waitTime)
SleepsBeforeRetry(retryCount) == retryCount < maxRetries

\* const waitTime = Math.pow(2, retryCount) * 1000;
WaitTime(retryCount) == Pow(2, retryCount) * 1000

\* (variant: the guard without its Refunded and unknown-status branches)
GuardSkips_OnlyCompleted(status) == status = StatusCompleted

\* the guard of processPayoutCompletion on doubleCheck.status
GuardSkips(status) ==
    \/ status = StatusCompleted
    \/ status = StatusRefunded
    \/ status # StatusPending

\* receipt.blockNumber: every included payout of a transfer is in a later
\* L1 block than the one before
ReceiptBlock(n) == 70 + n

\* after the retry loop: if (payoutSuccess && payoutTx) processPayoutCompletion
\* (retryCount is not read after the loop)
\* (variant: the completion step after the loop whatever its outcome)
CompletionStarts_Always(payoutSuccess) == TRUE

\* if (payoutSuccess && payoutTx): payoutTx is set whenever payoutSuccess is
CompletionStarts(payoutSuccess) == payoutSuccess

AfterLoop(l) ==
    IF CompletionStarts(l.payoutSuccess)
    THEN [l EXCEPT !.pc = "readTransfer", !.retryCount = 0, !.attempts = 0,
                   !.waits = <<>>]
    ELSE [l EXCEPT !.pc = "delay"]

LoopHead(l) ==
    IF LoopContinues(l.retryCount, l.payoutSuccess)
    THEN [l EXCEPT !.pc = "payout"]
    ELSE AfterLoop(l)

\* the catch block of the retry loop: retryCount++, then the back-off sleep
\* before the next attempt, or the end of the loop
PayoutCatch(l) ==
    LET r == l.retryCount + 1
        m == [l EXCEPT !.retryCount = r] IN
    IF SleepsBeforeRetry(r)
    THEN [m EXCEPT !.pc = "backoff", !.waits = Append(@, WaitTime(r))]
    ELSE LoopHead(m)

CurrentEvent(l) == l.bridgeEvents[l.evIdx]
CurrentRefund(l) == l.refundEvents[l.evIdx]

(***************************************************************************)
(* await supabase.from('bridged_events').select('tx_id').eq(...)           *)
(***************************************************************************)
Select(c) ==
    /\ scope.program = "unified"
    /\ loc[c].pc = "select"
    /\ \E res \in Results :
         LET l == loc[c]
             id == CurrentEvent(l).transferId
             existing == SelectRows(store, id) IN
         Finish(c,
           IF res = "fail" THEN NextEvent(l)
           ELSE IF Exists(existing) THEN NextEvent(l)
           ELSE [l EXCEPT !.pc = "getTransfer", !.existing = existing],
           IF res = "ok" /\ existing # <<>>
           THEN Op("selectFound", id, store[id].status, 0)
           ELSE NoOp)
    /\ UNCHANGED <<scope, clear, inserts, chain, l2status, store, payouts, completes>>

(***************************************************************************)
(* const transfer = await l2.getTransfer(transferId); a rejection escapes  *)
(* the for loop to the catch of the callback.                              *)
(***************************************************************************)
GetTransfer(c) ==
    /\ scope.program = "unified"
    /\ loc[c].pc = "getTransfer"
    /\ \E res \in Results :
         LET l == loc[c]
             statusNum == l2status[CurrentEvent(l).transferId] IN
         Finish(c,
           IF res = "fail" THEN [l EXCEPT !.pc = "catch"]
           ELSE IF IsPending(statusNum)
                THEN [l EXCEPT !.pc = "insert", !.statusNum = statusNum]
                ELSE [l EXCEPT !.pc = "delay", !.statusNum = statusNum], NoOp)
    /\ UNCHANGED <<scope, clear, inserts, chain, l2status, store, payouts, completes>>

(***************************************************************************)
(* await supabase.from('bridged_events').insert([...]); insertError is     *)
(* logged and the payout retry loop starts in either case.                 *)
(***************************************************************************)
Insert(c) ==
    /\ scope.program = "unified"
    /\ loc[c].pc = "insert"
    /\ \E res \in Results :
         LET l == loc[c]
             ev == CurrentEvent(l)
             insertResult == InsertResult(store, ev.transferId, res) IN
         /\ store' = IF insertResult = "ok"
                     THEN (ev.transferId :> InsertRow(ev)) @@ store
                     ELSE store
         /\ inserts' = IF insertResult = "ok"
                       THEN [inserts EXCEPT ![ev.transferId] =
                                 Min(@ + 1, CountCap)]
                       ELSE inserts
         /\ Finish(c,
              LoopHead(IF insertResult = "ok"
                       THEN [l EXCEPT !.evLog = Append(@, "insert")]
                       ELSE l),
              Op(IF insertResult = "ok" THEN "insert" ELSE "insertError",
                 ev.transferId, PriorStatus(store, ev.transferId), 0))
    /\ UNCHANGED <<scope, clear, chain, l2status, payouts, completes>>

(***************************************************************************)
(* One attempt of the retry loop, the submission:                          *)
(*   payoutTx = await l1.payout(transferId, user, bridgedAmount);          *)
(***************************************************************************)
Payout(c) ==
    /\ scope.program = "unified"
    /\ loc[c].pc = "payout"
    /\ \E res \in Results :
         LET l == [loc[c] EXCEPT !.attempts = @ + 1] IN
         Finish(c,
           IF res = "fail" THEN PayoutCatch(l)
           ELSE [l EXCEPT !.pc = "payoutWait"], NoOp)
    /\ UNCHANGED <<scope, clear, inserts, chain, l2status, store, payouts, completes>>

(***************************************************************************)
(*   const receipt = await payoutTx.wait();                                *)
(* The wait resolves with the receipt of the included transaction, or it   *)
(* rejects; a rejected wait does not tell whether the transaction was      *)
(* included.                                                               *)
(***************************************************************************)
PayoutWait(c) ==
    /\ scope.program = "unified"
    /\ loc[c].pc = "payoutWait"
    /\ LET l == loc[c]
           id == CurrentEvent(l).transferId IN
       \/ /\ payouts' = [payouts EXCEPT ![id] = Min(@ + 1, CountCap)]
          /\ Finish(c,
                LoopHead([l EXCEPT !.payoutSuccess = TRUE,
                                   !.payoutBlock = ReceiptBlock(payouts'[id]),
                                   !.evLog = Append(@, "payout")]), NoOp)
       \/ /\ "fail" \in Results
          /\ payouts' = payouts
          /\ Finish(c, PayoutCatch(l), NoOp)
       \/ /\ "fail" \in Results
          /\ payouts' = [payouts EXCEPT ![id] = Min(@ + 1, CountCap)]
          /\ Finish(c, PayoutCatch(l), NoOp)
    /\ UNCHANGED <<scope, clear, inserts, chain, l2status, store, completes>>

(***************************************************************************)
(*   await new Promise(resolve => setTimeout(resolve, waitTime));          *)
(* the back-off sleep in the catch of the retry loop, then the loop head.  *)
(***************************************************************************)
Backoff(c) ==
    /\ scope.program = "unified"
    /\ loc[c].pc = "backoff"
    /\ Finish(c, LoopHead(loc[c]), NoOp)
    /\ UNCHANGED <<scope, clear, inserts, chain, l2status, store, payouts, completes>>

(***************************************************************************)
(* processPayoutCompletion, the read of the transfer data to sign:         *)
(*   const transfer = await l2Contract.getTransfer(transferId);            *)
(* The catch of processPayoutCompletion swallows a failure.                *)
(***************************************************************************)
ReadTransfer(c) ==
    /\ scope.program = "unified"
    /\ loc[c].pc = "readTransfer"
    /\ \E res \in Results :
         Finish(c, [loc[c] EXCEPT !.pc = IF res = "fail" THEN "delay" ELSE "sign"],
                NoOp)
    /\ UNCHANGED <<scope, clear, inserts, chain, l2status, store, payouts, completes>>

(***************************************************************************)
(*   const signature = await signMessage(transferId, transfer.user, ...);  *)
(***************************************************************************)
Sign(c) ==
    /\ scope.program = "unified"
    /\ loc[c].pc = "sign"
    /\ \E res \in Results :
         Finish(c, [loc[c] EXCEPT !.pc = IF res = "fail" THEN "delay"
                                                        ELSE "doubleCheck"],
                NoOp)
    /\ UNCHANGED <<scope, clear, inserts, chain, l2status, store, payouts, completes>>

(***************************************************************************)
(*   const doubleCheck = await l2Contract.getTransfer(transferId);         *)
(* and the guard on doubleCheck.status.                                    *)
(***************************************************************************)
DoubleCheck(c) ==
    /\ scope.program = "unified"
    /\ loc[c].pc = "doubleCheck"
    /\ \E res \in Results :
         LET l == loc[c]
             status == l2status[CurrentEvent(l).transferId] IN
         Finish(c,
           IF res = "fail" THEN [l EXCEPT !.pc = "delay"]
           ELSE IF GuardSkips(status)
                THEN [l EXCEPT !.pc = "delay", !.doubleCheck = status]
                ELSE [l EXCEPT !.pc = "complete", !.doubleCheck = status], NoOp)
    /\ UNCHANGED <<scope, clear, inserts, chain, l2status, store, payouts, completes>>

(***************************************************************************)
(* callCompleteOnL2, the submission:                                       *)
(*   const tx = await l2Contract.complete(transferId, [signature], [...]); *)
(* The call resolves with a submitted transaction or rejects.              *)
(***************************************************************************)
Complete(c) ==
    /\ scope.program = "unified"
    /\ loc[c].pc = "complete"
    /\ LET l == loc[c]
           id == CurrentEvent(l).transferId IN
       \/ /\ completes' = [completes EXCEPT ![id] = Min(@ + 1, CountCap)]
          /\ Finish(c, [l EXCEPT !.pc = "completeWait"], NoOp)
       \/ /\ "fail" \in Results
          /\ completes' = completes
          /\ Finish(c, [l EXCEPT !.pc = "delay"], NoOp)
    /\ UNCHANGED <<scope, clear, inserts, chain, l2status, store, payouts>>

(***************************************************************************)
(*   await tx.wait();                                                      *)
(* The contract completes a pending transfer and reverts otherwise.  A     *)
(* rejected wait does not tell whether the transaction was included.       *)
(***************************************************************************)
CompleteWait(c) ==
    /\ scope.program = "unified"
    /\ loc[c].pc = "completeWait"
    /\ LET l == loc[c]
           id == CurrentEvent(l).transferId
           included == IF l2status[id] = StatusPending
                       THEN [l2status EXCEPT ![id] = StatusCompleted]
                       ELSE l2status IN
       \/ /\ l2status[id] = StatusPending
          /\ l2status' = included
          /\ Finish(c, [l EXCEPT !.pc = "updateComplete",
                                 !.evLog = Append(@, "complete")], NoOp)
       \/ /\ l2status[id] # StatusPending
          /\ l2status' = l2status
          /\ Finish(c, [l EXCEPT !.pc = "delay"], NoOp)
       \/ /\ "fail" \in Results
          /\ l2status' = l2status
          /\ Finish(c, [l EXCEPT !.pc = "delay"], NoOp)
       \/ /\ "fail" \in Results
          /\ l2status' = included
          /\ Finish(c, [l EXCEPT !.pc = "delay"], NoOp)
    /\ UNCHANGED <<scope, clear, inserts, chain, store, payouts, completes>>

(***************************************************************************)
(* updateSupabaseComplete: one update call with status, l1_block_number    *)
(* and signature1.                                                         *)
(***************************************************************************)
UpdateComplete(c) ==
    /\ scope.program = "unified"
    /\ loc[c].pc = "updateComplete"
    /\ \E res \in Results :
         LET l == loc[c]
             id == CurrentEvent(l).transferId IN
         /\ store' = IF res = "ok" /\ id \in DOMAIN store
                     THEN UpdateRows(store, id,
                            CompleteRow(store[id], l.payoutBlock, signMessage(id)))
                     ELSE store
         /\ Finish(c,
              IF res = "fail" THEN [l EXCEPT !.pc = "delay"]
              ELSE [l EXCEPT !.pc = "delay", !.evLog = Append(@, "update")],
              Op(IF res = "ok" THEN "updateComplete" ELSE "updateError",
                 id, PriorStatus(store, id), l.payoutBlock))
    /\ UNCHANGED <<scope, clear, inserts, chain, l2status, payouts, completes>>

(***************************************************************************)
(* await sleep(1000) at the end of an event that was not skipped by        *)
(* continue; then the next event, the refund loop or the cursor write.     *)
(***************************************************************************)
Delay(c) ==
    /\ scope.program = "unified"
    /\ loc[c].pc = "delay"
    /\ Finish(c, NextEvent(loc[c]), NoOp)
    /\ UNCHANGED <<scope, clear, inserts, chain, l2status, store, payouts, completes>>

(***************************************************************************)
(* The refund loop: await supabase.update({status: 'refunded'}).eq(...);   *)
(* updateError is logged.                                                  *)
(***************************************************************************)
RefundUpdate(c) ==
    /\ scope.program = "unified"
    /\ loc[c].pc = "refundUpdate"
    /\ \E res \in Results :
         LET l == loc[c]
             id == CurrentRefund(l).transferId IN
         /\ store' = IF res = "ok" /\ id \in DOMAIN store
                     THEN UpdateRows(store, id, RefundRow(store[id]))
                     ELSE store
         /\ Finish(c, NextRefund(l),
              Op(IF res = "ok" THEN "refundUpdate" ELSE "refundError",
                 id, PriorStatus(store, id), 0))
    /\ UNCHANGED <<scope, clear, inserts, chain, l2status, payouts, completes>>

(***************************************************************************)
(* src/watcher.js: the setInterval callback of the watcher without         *)
(* executor.  It has no early return, scans from startingBlock in every    *)
(* tick, makes one payout attempt per event, has no completion step and    *)
(* never writes lastCheckedBlock.                                          *)
(***************************************************************************)
WatcherStartRefunds(l) ==
    IF Len(l.refundEvents) > 0
    THEN [ResetEvent(l) EXCEPT !.pc = "refundUpdate", !.evIdx = 1]
    ELSE [l EXCEPT !.pc = "end"]

WatcherStartEvents(l) ==
    LET m == [l EXCEPT !.fromBlock = 0, !.scanFrom = 0, !.subQueries = <<>>] IN
    IF Len(m.bridgeEvents) > 0
    THEN [ResetEvent(m) EXCEPT !.pc = "select", !.evIdx = 1]
    ELSE WatcherStartRefunds(m)

WatcherNextEvent(l) ==
    LET m == [l EXCEPT !.processed = @ + 1] IN
    IF m.evIdx < Len(m.bridgeEvents)
    THEN [ResetEvent(m) EXCEPT !.pc = "select", !.evIdx = m.evIdx + 1]
    ELSE WatcherStartRefunds(m)

WatcherNextRefund(l) ==
    LET m == [l EXCEPT !.processed = @ + 1] IN
    IF m.evIdx < Len(m.refundEvents)
    THEN [m EXCEPT !.evIdx = @ + 1]
    ELSE [m EXCEPT !.pc = "end"]

(***************************************************************************)
(* const currentBlock = await l2Provider.getBlockNumber();                 *)
(* const startingBlock = Math.max(0, currentBlock - 1000);                 *)
(* let fromBlock = startingBlock;                                          *)
(***************************************************************************)
WatcherGetBlockNumber(c) ==
    /\ scope.program = "watcher"
    /\ loc[c].pc = "getBlockNumber"
    /\ \E res \in Results :
         LET l == loc[c] IN
         Finish(c,
           IF res = "fail" THEN [l EXCEPT !.pc = "catch"]
           ELSE [l EXCEPT !.pc = "queryBridge",
                          !.currentBlock = head,
                          !.fromBlock = startingBlock(head),
                          !.scanFrom = startingBlock(head)], NoOp)
    /\ UNCHANGED <<scope, clear, inserts, chain, l2status, store, payouts, completes>>

(***************************************************************************)
(* One sub-range query of the BridgeInitiated loop of src/watcher.js.      *)
(* When the loop ends the Refunded loop starts from startingBlock again.   *)
(***************************************************************************)
WatcherQueryBridge(c) ==
    /\ scope.program = "watcher"
    /\ loc[c].pc = "queryBridge"
    /\ \E res \in Results :
         LET l == loc[c]
             toBlock == ToBlock(l.fromBlock, l.currentBlock)
             m == [l EXCEPT
                     !.bridgeEvents =
                         @ \o queryFilter("BridgeInitiated", l.fromBlock, toBlock),
                     !.subQueries = Append(@, <<l.fromBlock, toBlock>>),
                     !.fromBlock = toBlock + 1]
             r == [m EXCEPT !.fromBlock = startingBlock(m.currentBlock),
                            !.scanFrom = startingBlock(m.currentBlock),
                            !.subQueries = <<>>] IN
         Finish(c,
           IF res = "fail" THEN QueryRejected(l, toBlock)
           ELSE IF m.fromBlock <= m.currentBlock THEN m
           ELSE IF r.fromBlock <= r.currentBlock
                THEN [r EXCEPT !.pc = "queryRefund"]
                ELSE WatcherStartEvents(r),
           IF res = "fail" THEN QueryError
           ELSE IF m.fromBlock <= m.currentBlock THEN NoOp
           ELSE ScanDone("scanBridge", m))
    /\ UNCHANGED <<scope, clear, inserts, chain, l2status, store, payouts, completes>>

(***************************************************************************)
(* One sub-range query of the Refunded loop of src/watcher.js.             *)
(***************************************************************************)
WatcherQueryRefund(c) ==
    /\ scope.program = "watcher"
    /\ loc[c].pc = "queryRefund"
    /\ \E res \in Results :
         LET l == loc[c]
             toBlock == ToBlock(l.fromBlock, l.currentBlock)
             m == [l EXCEPT
                     !.refundEvents =
                         @ \o queryFilter("Refunded", l.fromBlock, toBlock),
                     !.subQueries = Append(@, <<l.fromBlock, toBlock>>),
                     !.fromBlock = toBlock + 1] IN
         Finish(c,
           IF res = "fail" THEN QueryRejected(l, toBlock)
           ELSE IF m.fromBlock <= m.currentBlock THEN m
           ELSE WatcherStartEvents(m),
           IF res = "fail" THEN QueryError
           ELSE IF m.fromBlock <= m.currentBlock THEN NoOp
           ELSE ScanDone("scanRefund", m))
    /\ UNCHANGED <<scope, clear, inserts, chain, l2status, store, payouts, completes>>

(***************************************************************************)
(* src/watcher.js: the existence check; selectError or a row found skips   *)
(* the event by continue.                                                  *)
(***************************************************************************)
WatcherSelect(c) ==
    /\ scope.program = "watcher"
    /\ loc[c].pc = "select"
    /\ \E res \in Results :
         LET l == loc[c]
             id == CurrentEvent(l).transferId
             existing == SelectRows(store, id) IN
         Finish(c,
           IF res = "fail" THEN WatcherNextEvent(l)
           ELSE IF Exists(existing) THEN WatcherNextEvent(l)
           ELSE [l EXCEPT !.pc = "getTransfer", !.existing = existing],
           IF res = "ok" /\ existing # <<>>
           THEN Op("selectFound", id, store[id].status, 0)
           ELSE NoOp)
    /\ UNCHANGED <<scope, clear, inserts, chain, l2status, store, payouts, completes>>

(***************************************************************************)
(* src/watcher.js: const transfer = await l2.getTransfer(transferId); a    *)
(* rejection escapes the for loop to the catch of the callback; a status   *)
(* other than Pending is logged and the loop goes on with the next event.  *)
(***************************************************************************)
WatcherGetTransfer(c) ==
    /\ scope.program = "watcher"
    /\ loc[c].pc = "getTransfer"
    /\ \E res \in Results :
         LET l == loc[c]
             statusNum == l2status[CurrentEvent(l).transferId] IN
         Finish(c,
           IF res = "fail" THEN [l EXCEPT !.pc = "catch"]
           ELSE IF IsPending(statusNum)
                THEN [l EXCEPT !.pc = "insert", !.statusNum = statusNum]
                ELSE WatcherNextEvent(l), NoOp)
    /\ UNCHANGED <<scope, clear, inserts, chain, l2status, store, payouts, completes>>

(***************************************************************************)
(* src/watcher.js: the insert (the columns it does not set are null);      *)
(* insertError is logged and the payout follows in either case.            *)
(***************************************************************************)
WatcherInsert(c) ==
    /\ scope.program = "watcher"
    /\ loc[c].pc = "insert"
    /\ \E res \in Results :
         LET l == loc[c]
             ev == CurrentEvent(l)
             insertResult == InsertResult(store, ev.transferId, res) IN
         /\ store' = IF insertResult = "ok"
                     THEN (ev.transferId :> InsertRow(ev)) @@ store
                     ELSE store
         /\ inserts' = IF insertResult = "ok"
                       THEN [inserts EXCEPT ![ev.transferId] =
                                 Min(@ + 1, CountCap)]
                       ELSE inserts
         /\ Finish(c,
              IF insertResult = "ok"
              THEN [l EXCEPT !.pc = "payout", !.evLog = Append(@, "insert")]
              ELSE [l EXCEPT !.pc = "payout"],
              Op(IF insertResult = "ok" THEN "insert" ELSE "insertError",
                 ev.transferId, PriorStatus(store, ev.transferId), 0))
    /\ UNCHANGED <<scope, clear, chain, l2status, payouts, completes>>

(***************************************************************************)
(* src/watcher.js: const tx = await l1.payout(transferId, user, amount);   *)
(* the one attempt; its catch logs the error and the loop goes on.         *)
(***************************************************************************)
WatcherPayout(c) ==
    /\ scope.program = "watcher"
    /\ loc[c].pc = "payout"
    /\ \E res \in Results :
         LET l == [loc[c] EXCEPT !.attempts = @ + 1] IN
         Finish(c,
           IF res = "fail" THEN WatcherNextEvent(l)
           ELSE [l EXCEPT !.pc = "payoutWait"], NoOp)
    /\ UNCHANGED <<scope, clear, inserts, chain, l2status, store, payouts, completes>>

(***************************************************************************)
(* src/watcher.js: await tx.wait(); resolved or rejected, the loop goes on *)
(* with the next event.                                                    *)
(***************************************************************************)
WatcherPayoutWait(c) ==
    /\ scope.program = "watcher"
    /\ loc[c].pc = "payoutWait"
    /\ LET l == loc[c]
           id == CurrentEvent(l).transferId IN
       \/ /\ payouts' = [payouts EXCEPT ![id] = Min(@ + 1, CountCap)]
          /\ Finish(c, WatcherNextEvent(l), NoOp)
       \/ /\ "fail" \in Results
          /\ payouts' = payouts
          /\ Finish(c, WatcherNextEvent(l), NoOp)
       \/ /\ "fail" \in Results
          /\ payouts' = [payouts EXCEPT ![id] = Min(@ + 1, CountCap)]
          /\ Finish(c, WatcherNextEvent(l), NoOp)
    /\ UNCHANGED <<scope, clear, inserts, chain, l2status, store, completes>>

(***************************************************************************)
(* src/watcher.js: the refund loop; updateError is logged.                 *)
(***************************************************************************)
WatcherRefundUpdate(c) ==
    /\ scope.program = "watcher"
    /\ loc[c].pc = "refundUpdate"
    /\ \E res \in Results :
         LET l == loc[c]
             id == CurrentRefund(l).transferId IN
         /\ store' = IF res = "ok" /\ id \in DOMAIN store
                     THEN UpdateRows(store, id, RefundRow(store[id]))
                     ELSE store
         /\ Finish(c, WatcherNextRefund(l),
              Op(IF res = "ok" THEN "refundUpdate" ELSE "refundError",
                 id, PriorStatus(store, id), 0))
    /\ UNCHANGED <<scope, clear, inserts, chain, l2status, payouts, completes>>

(***************************************************************************)
(* The clearFirst200 script, run by an operator while the watcher runs.    *)
(* It selects the first 200 rows of bridged_events in block_number order   *)
(* and then deletes the rows with the tx_ids it selected.                  *)
(***************************************************************************)
\* (deleted is history: the tx_ids whose rows the script has deleted)
ClearIdle == [pc |-> "idle", txIdsToDelete |-> {}, runs |-> 0, deleted |-> {}]

\* the subsets of S that have m elements
RECURSIVE Choose(_, _)
Choose(S, m) ==
    IF m = 0 THEN {{}}
    ELSE UNION {{T \cup {x} : T \in Choose(S \ {x}, m - 1)} : x \in S}

\* .order('block_number', { ascending: true }).limit(200): the sets of
\* tx_ids the select can return.  It returns min(200, n) rows, none of them
\* of a larger block_number than a row it leaves out; which of the rows
\* tied on the block_number of the 200th it returns is the choice of the
\* store (the select names no second sort key).
rowsToDelete(table) ==
    LET Below(id) == {other \in DOMAIN table :
                        table[other].block_number < table[id].block_number}
        UpTo(id) == {other \in DOMAIN table :
                        table[other].block_number <= table[id].block_number}
        sure == {id \in DOMAIN table : Cardinality(UpTo(id)) <= ClearLimit}
        tied == {id \in DOMAIN table \ sure : Cardinality(Below(id)) < ClearLimit}
        take == ClearLimit - Cardinality(sure)
        leave == Cardinality(tied) - take
    IN  IF tied = {} THEN {sure}
        ELSE IF take <= leave
             THEN {sure \cup T : T \in Choose(tied, take)}
             ELSE {sure \cup (tied \ T) : T \in Choose(tied, leave)}

\* .delete().in('tx_id', txIdsToDelete)
DeleteRows(table, txIds) == [id \in DOMAIN table \ txIds |-> table[id]]

\* the select of clearFirst200; selectError or no row ends the run
ClearSelect ==
    /\ clear.pc = "idle"
    /\ clear.runs < MaxClears
    /\ \E res \in Results :
       \E rows \in IF res = "ok" THEN rowsToDelete(store) ELSE {{}} :
         clear' = IF rows = {}
                  THEN [clear EXCEPT !.runs = @ + 1]
                  ELSE [clear EXCEPT !.runs = @ + 1, !.pc = "delete",
                                     !.txIdsToDelete = rows]
    /\ last' = NoOutcome
    /\ UNCHANGED <<scope, chain, l2status, store, lastCheckedBlock, loc,
                   payouts, completes, inserts>>

\* the delete of clearFirst200; deleteError is logged
ClearDelete ==
    /\ clear.pc = "delete"
    /\ \E res \in Results :
         /\ store' = IF res = "ok" THEN DeleteRows(store, clear.txIdsToDelete)
                     ELSE store
         /\ clear' = [clear EXCEPT
                        !.pc = "idle", !.txIdsToDelete = {},
                        !.deleted = IF res = "ok"
                                    THEN @ \cup (clear.txIdsToDelete
                                                   \cap DOMAIN store)
                                    ELSE @]
    /\ last' = [NoOutcome EXCEPT !.op = "clear"]
    /\ UNCHANGED <<scope, chain, l2status, lastCheckedBlock, loc, payouts,
                   completes, inserts>>

(***************************************************************************)
(* The state after main() has set lastCheckedBlock from getStartingBlock   *)
(* and installed the timer.                                                *)
(***************************************************************************)
InitState ==
    /\ chain = <<>>
    /\ l2status = [id \in Ids |-> StatusPending]
    /\ store = <<>>
    /\ lastCheckedBlock = IF scope.program = "watcher"
                          THEN startingBlock(head)
                          ELSE getStartingBlock(head)
    /\ loc = [c \in Callbacks |-> IdleLoc]
    /\ payouts = [id \in Ids |-> 0]
    /\ completes = [id \in Ids |-> 0]
    /\ inserts = [id \in Ids |-> 0]
    /\ last = NoOutcome
    /\ clear = ClearIdle

(***************************************************************************)
(* Init: either program, one transfer, and timer callbacks that overlap    *)
(* (setInterval does not wait for the previous invocation to settle).      *)
(***************************************************************************)
Init ==
    /\ \E program \in Programs :
          scope = [program |-> program, ids |-> {"a"}, slots |-> 2,
                   healed |-> FALSE, refundAny |-> TRUE]
    /\ InitState

Next ==
    \/ MineBlock
    \/ L2StatusChange
    \/ ClearSelect
    \/ ClearDelete
    \/ \E c \in Callbacks : TimerFire(c)
    \/ \E c \in Callbacks : WatcherGetBlockNumber(c)
    \/ \E c \in Callbacks : WatcherQueryBridge(c)
    \/ \E c \in Callbacks : WatcherQueryRefund(c)
    \/ \E c \in Callbacks : WatcherSelect(c)
    \/ \E c \in Callbacks : WatcherGetTransfer(c)
    \/ \E c \in Callbacks : WatcherInsert(c)
    \/ \E c \in Callbacks : WatcherPayout(c)
    \/ \E c \in Callbacks : WatcherPayoutWait(c)
    \/ \E c \in Callbacks : WatcherRefundUpdate(c)
    \/ \E c \in Callbacks : GetBlockNumber(c)
    \/ \E c \in Callbacks : QueryBridge(c)
    \/ \E c \in Callbacks : QueryRefund(c)
    \/ \E c \in Callbacks : Select(c)
    \/ \E c \in Callbacks : GetTransfer(c)
    \/ \E c \in Callbacks : Insert(c)
    \/ \E c \in Callbacks : Payout(c)
    \/ \E c \in Callbacks : PayoutWait(c)
    \/ \E c \in Callbacks : Backoff(c)
    \/ \E c \in Callbacks : ReadTransfer(c)
    \/ \E c \in Callbacks : Sign(c)
    \/ \E c \in Callbacks : DoubleCheck(c)
    \/ \E c \in Callbacks : Complete(c)
    \/ \E c \in Callbacks : CompleteWait(c)
    \/ \E c \in Callbacks : UpdateComplete(c)
    \/ \E c \in Callbacks : Delay(c)
    \/ \E c \in Callbacks : RefundUpdate(c)

Spec == Init /\ [][Next]_vars

(***************************************************************************)
(* The specification of the liveness claims, which are about the unified   *)
(* watcher+executor.  The contract emits Refunded for pending transfers    *)
(* only, and the outage ends: from some point on every external call       *)
(* succeeds.  The timer keeps firing and every awaited call settles, so     *)
(* every step of the callback that is enabled is eventually taken.         *)
(***************************************************************************)
Heal ==
    /\ ~scope.healed
    /\ scope' = [scope EXCEPT !.healed = TRUE]
    /\ last' = NoOutcome
    /\ UNCHANGED <<chain, l2status, store, lastCheckedBlock, loc, payouts,
                   completes, inserts, clear>>

LiveInit ==
    /\ scope = [program |-> "unified", ids |-> {"a"}, slots |-> 2,
                healed |-> FALSE, refundAny |-> FALSE]
    /\ InitState

LiveNext ==
    \/ Heal
    \/ MineBlock
    \/ L2StatusChange
    \/ ClearSelect
    \/ ClearDelete
    \/ \E c \in Callbacks : TimerFire(c)
    \/ \E c \in Callbacks : GetBlockNumber(c)
    \/ \E c \in Callbacks : QueryBridge(c)
    \/ \E c \in Callbacks : QueryRefund(c)
    \/ \E c \in Callbacks : Select(c)
    \/ \E c \in Callbacks : GetTransfer(c)
    \/ \E c \in Callbacks : Insert(c)
    \/ \E c \in Callbacks : Payout(c)
    \/ \E c \in Callbacks : PayoutWait(c)
    \/ \E c \in Callbacks : Backoff(c)
    \/ \E c \in Callbacks : ReadTransfer(c)
    \/ \E c \in Callbacks : Sign(c)
    \/ \E c \in Callbacks : DoubleCheck(c)
    \/ \E c \in Callbacks : Complete(c)
    \/ \E c \in Callbacks : CompleteWait(c)
    \/ \E c \in Callbacks : UpdateComplete(c)
    \/ \E c \in Callbacks : Delay(c)
    \/ \E c \in Callbacks : RefundUpdate(c)

Fairness ==
    /\ WF_vars(Heal)
    /\ \A c \in Callbacks :
          /\ WF_vars(TimerFire(c))
          /\ WF_vars(GetBlockNumber(c))
          /\ WF_vars(QueryBridge(c))
          /\ WF_vars(QueryRefund(c))
          /\ WF_vars(Select(c))
          /\ WF_vars(GetTransfer(c))
          /\ WF_vars(Insert(c))
          /\ WF_vars(Payout(c))
          /\ WF_vars(PayoutWait(c))
          /\ WF_vars(Backoff(c))
          /\ WF_vars(ReadTransfer(c))
          /\ WF_vars(Sign(c))
          /\ WF_vars(DoubleCheck(c))
          /\ WF_vars(Complete(c))
          /\ WF_vars(CompleteWait(c))
          /\ WF_vars(UpdateComplete(c))
          /\ WF_vars(Delay(c))
          /\ WF_vars(RefundUpdate(c))

LiveSpec == LiveInit /\ [][LiveNext]_vars /\ Fairness

(***************************************************************************)
(* The specification of the scan, for either program.  The unified watcher *)
(* has not polled for a while (an outage of the RPC endpoint, a stalled    *)
(* tick) and the head is ScanSizes blocks past the cursor; src/watcher.js  *)
(* has just started on a chain of that length.  The blocks hold no event   *)
(* of the bridge, so a tick is its two query loops and its end.            *)
(***************************************************************************)
ScanSizes == {1, 2, 499, 500, 501, 999, 1000, 1001}
ScanCursors == {0, 1, 250}

ScanInit ==
    /\ \E n \in ScanSizes, cursor \in ScanCursors, program \in Programs :
          /\ chain = [b \in 1..(cursor + n) |-> NoEvent]
          /\ lastCheckedBlock = IF program = "watcher"
                                THEN startingBlock(cursor + n)
                                ELSE cursor
          /\ scope = [program |-> program, ids |-> {}, slots |-> 2,
                      healed |-> FALSE, refundAny |-> TRUE]
    /\ l2status = [id \in Ids |-> StatusPending]
    /\ store = <<>>
    /\ loc = [c \in Callbacks |-> IdleLoc]
    /\ payouts = [id \in Ids |-> 0]
    /\ completes = [id \in Ids |-> 0]
    /\ inserts = [id \in Ids |-> 0]
    /\ last = NoOutcome
    /\ clear = ClearIdle

ScanNext ==
    \/ \E c \in Callbacks : TimerFire(c)
    \/ \E c \in Callbacks : GetBlockNumber(c)
    \/ \E c \in Callbacks : QueryBridge(c)
    \/ \E c \in Callbacks : QueryRefund(c)
    \/ \E c \in Callbacks : WatcherGetBlockNumber(c)
    \/ \E c \in Callbacks : WatcherQueryBridge(c)
    \/ \E c \in Callbacks : WatcherQueryRefund(c)

ScanSpec == ScanInit /\ [][ScanNext]_vars


(***************************************************************************)
(*                              Properties                                 *)
(***************************************************************************)
PastSelect == {"getTransfer", "insert", "payout", "payoutWait", "backoff",
               "readTransfer", "sign", "doubleCheck", "complete",
               "completeWait", "updateComplete", "delay"}

Range(seq) == {seq[i] : i \in 1..Len(seq)}

\* seq lists some of the steps insert, payout, complete, update, in this order
EventSteps == <<"insert", "payout", "complete", "update">>

InStepOrder(seq) ==
    \E pos \in [1..Len(seq) -> 1..Len(EventSteps)] :
        /\ \A i \in 1..Len(seq) : seq[i] = EventSteps[pos[i]]
        /\ \A i, j \in 1..Len(seq) : i < j => pos[i] < pos[j]

\* C1: over any sequence of ticks at most one L1 payout transaction is
\* included for a transfer identifier.
C1_AtMostOnePayout == \A id \in Ids : payouts[id] <= 1

\* C2: over any sequence of ticks, in either program, the record store
\* accepts at most one insert per transfer identifier, also when the same
\* block range is scanned and processed again and when overlapping callbacks
\* race to insert it.  (The claim is about ticks and re-scans: it is stated
\* for the identifiers whose row the clearFirst200 script has not deleted.)
C2_InsertedAtMostOnce ==
    \A id \in Ids : id \notin clear.deleted => inserts[id] <= 1

\* a second insert of the identifier was attempted and rejected as a
\* conflict, with no row of it ever deleted
C2_Witness ==
    /\ inserts["a"] = 1
    /\ "a" \notin clear.deleted
    /\ last.op = "insertError"
    /\ last.prior # "absent"

\* C3: an initiation event whose status read from getTransfer is not Pending
\* (0) is skipped, in either program: the step that reads the status writes
\* nothing and does not lead to the insert, and the processing of the event
\* makes no insert, no payout submission and does not enter the completion
\* step.
C3_NonPendingSkipped ==
    [][\A c \in Callbacks :
         LET l == loc[c]
             m == loc'[c]
             id == CurrentEvent(l).transferId IN
         /\ (l.pc = "getTransfer" /\ m # l /\ l2status[id] # StatusPending) =>
               /\ m.pc \notin PastSelect \ {"delay"}
               /\ UNCHANGED <<store, inserts, payouts, completes>>
         /\ m.statusNum \notin {NoStatus, 0} =>
               /\ m.pc = "delay"
               /\ m.evLog = <<>>
               /\ m.attempts = 0
               /\ m.doubleCheck = NoStatus]_vars

C3_Witness ==
    \E c \in Callbacks : loc[c].statusNum = 1 /\ loc[c].pc = "delay"

\* C4: a refund update that the store accepts leaves the record of that
\* identifier with status refunded, whatever its status was before; the
\* update is sent without an existence or status guard and creates no row.
C4_RefundLastWriteWins ==
    last.op = "refundUpdate" =>
        /\ last.prior # "absent" =>
              /\ last.id \in DOMAIN store
              /\ store[last.id].status = "refunded"
        /\ last.prior = "absent" => last.id \notin DOMAIN store

\* a refund update overwrote a record whose status was Completed
C4_Witness == last.op = "refundUpdate" /\ last.prior = "Completed"

\* C5: the retry loop makes at most 3 payout attempts for an event, makes
\* none after a confirmed attempt and none after the third failure.
C5_AtMostThreeAttempts ==
    \A c \in Callbacks :
        /\ loc[c].attempts <= 3
        /\ loc[c].retryCount <= 3
        /\ loc[c].pc = "payout" =>
              /\ ~loc[c].payoutSuccess
              /\ loc[c].retryCount < 3
              /\ loc[c].attempts = loc[c].retryCount
        /\ loc[c].retryCount = 3 =>
              /\ loc[c].pc = "delay"
              /\ loc[c].attempts = 3
              /\ ~loc[c].payoutSuccess

\* three attempts failed and the event is given up for this tick
C5_Witness ==
    \E c \in Callbacks :
        loc[c].pc = "delay" /\ loc[c].retryCount = 3 /\ loc[c].attempts = 3

\* C6: when every payout attempt of an event fails, the waits 2s, 4s and 8s
\* are performed, in this order.
C6_BackoffSchedule ==
    \A c \in Callbacks :
        (loc[c].pc = "delay" /\ loc[c].retryCount = 3) =>
            loc[c].waits = <<2000, 4000, 8000>>

\* C7: when the status re-read at the guard of processPayoutCompletion is
\* not Pending, the step submits no complete call, writes nothing to the
\* record store and returns normally: the callback goes on with the delay
\* after the event.
C7_GuardSkipsCompletion ==
    [][\A c \in Callbacks :
         LET l == loc[c]
             id == CurrentEvent(l).transferId IN
         /\ (l.pc = "doubleCheck" /\ loc'[c] # l /\ l2status[id] # 0) =>
               /\ loc'[c].pc = "delay"
               /\ loc'[c].evLog = l.evLog
               /\ last'.tick = "none"
               /\ UNCHANGED <<store, completes, l2status, payouts, inserts>>
         /\ loc'[c].doubleCheck \notin {NoStatus, 0} =>
               /\ loc'[c].pc = "delay"
               /\ "complete" \notin Range(loc'[c].evLog)
               /\ "update" \notin Range(loc'[c].evLog)]_vars

\* the guard read Refunded after a confirmed payout
C7_Witness ==
    \E c \in Callbacks : loc[c].doubleCheck = 2 /\ loc[c].pc = "delay"

\* what the insert and the completion update leave in the store, and the
\* order of the steps an invocation has made for its current event
C8_State ==
    /\ \A c \in Callbacks :
          /\ InStepOrder(loc[c].evLog)
          /\ "update" \in Range(loc[c].evLog) =>
                /\ {"payout", "complete"} \subseteq Range(loc[c].evLog)
                /\ loc[c].payoutSuccess
    /\ last.op = "insert" =>
          /\ last.prior = "absent"
          /\ store[last.id].status = "pending"
          /\ store[last.id].l1_block_number = 0
    /\ (last.op = "updateComplete" /\ last.prior # "absent") =>
          /\ store[last.id].status = "Completed"
          /\ store[last.id].l1_block_number = last.block
          /\ \E c \in Callbacks :
                /\ loc[c].pc = "delay"
                /\ loc[c].payoutBlock = last.block
                /\ "update" \in Range(loc[c].evLog)

\* C8: the steps of an event occur in the order insert (status pending),
\* payout confirmed, complete, record update, each successful step leading
\* to the next; the update sets the status to Completed and l1_block_number
\* to the block number of the payout receipt.
C8_InsertPayoutUpdate ==
    [][/\ C8_State'
       /\ \A c \in Callbacks :
            LET l == loc[c]
                m == loc'[c]
                step == m.evLog[Len(m.evLog)]
                id == CurrentEvent(l).transferId IN
            /\ (m.evLog # l.evLog /\ m.evLog # <<>>) =>
                  /\ m.evLog = Append(l.evLog, step)
                  /\ step = "insert" => l.pc = "insert" /\ m.pc = "payout"
                  /\ step = "payout" =>
                        /\ l.pc = "payoutWait" /\ m.pc = "readTransfer"
                        /\ m.payoutBlock = ReceiptBlock(payouts'[id])
                        /\ payouts'[id] = CountCap \/ payouts'[id] = payouts[id] + 1
                  /\ step = "complete" =>
                        /\ l.pc = "completeWait" /\ m.pc = "updateComplete"
                        /\ l2status'[id] = 1
                  /\ step = "update" => l.pc = "updateComplete" /\ m.pc = "delay"
            /\ (l.pc = "doubleCheck" /\ m.doubleCheck = 0) => m.pc = "complete"
            /\ (l.pc = "complete" /\ m # l /\ completes'[id] # completes[id]) =>
                  m.pc = "completeWait"]_vars

\* every call of an event succeeded: inserted, paid out, completed, updated
C8_Witness ==
    \E c \in Callbacks :
        /\ loc[c].evLog = EventSteps
        /\ last.op = "updateComplete"
        /\ last.prior = "pending"
        /\ store["a"].status = "Completed"
        /\ store["a"].l1_block_number = loc[c].payoutBlock

\* C9: an initiation event whose identifier the select finds in the record
\* store is skipped by continue: the select step changes neither the store
\* nor the chains, and the callback never goes on to getTransfer, insert,
\* payout or completion with rows found.
C9_ExistingSkipped ==
    [][\A c \in Callbacks :
         /\ (loc[c].pc = "select" /\ loc'[c] # loc[c]) =>
               UNCHANGED <<store, inserts, payouts, completes, l2status>>
         /\ loc'[c].pc \in PastSelect => loc'[c].existing = <<>>
         /\ last'.op = "selectFound" =>
               /\ loc'[c].pc \notin PastSelect
                    \/ loc'[c].evIdx # loc[c].evIdx \/ loc'[c] = loc[c]
               /\ store'[last'.id] = store[last'.id]]_vars

\* a re-scan found the identifier in the store
C9_Witness == last.op = "selectFound" /\ last.id = "a"

\* C10: the cursor is written only by the last step of a tick, to the head
\* that tick read, after all the events it scanned were processed or
\* skipped; a tick that ends in the catch of the callback leaves the cursor
\* unchanged.
C10_CursorAdvance ==
    [][/\ lastCheckedBlock' # lastCheckedBlock => last'.tick = "advance"
       /\ last'.tick = "advance" =>
             /\ lastCheckedBlock' = last'.head
             /\ last'.processed = last'.scanned
             /\ \E c \in Callbacks :
                   /\ loc[c].pc # "idle"
                   /\ loc'[c].pc = "idle"
                   /\ loc[c].currentBlock = last'.head
       /\ last'.tick \in {"catch", "return"} =>
             lastCheckedBlock' = lastCheckedBlock]_vars

\* a failure escaped a tick that had scanned an event
C10_Witness == last.tick = "catch" /\ last.scanned > 0

\* C11: a failure while an initiation event is processed aborts only that
\* event: no step of the processing of an event (from getTransfer on) ends
\* the tick in the catch of the callback, so the remaining events of the
\* tick are still processed.
C11_EventFailureIsolated ==
    [][\A c \in Callbacks :
         (loc[c].pc \in PastSelect /\ loc'[c] # loc[c]) =>
             last'.tick # "catch"]_vars

\* C12: a sub-range log query that fails, of either event kind, ends the
\* tick in the catch of the callback: the tick has processed no event, and
\* the failing step writes neither the cursor nor the record store and
\* submits no payout and no completion.  Both query loops run before the
\* first event is processed.
C12_ScanFailureAbortsTick ==
    [][/\ last'.op = "queryError" =>
             /\ last'.tick = "catch"
             /\ last'.processed = 0
             /\ UNCHANGED <<lastCheckedBlock, store, inserts, payouts,
                            completes, l2status>>
       /\ \A c \in Callbacks :
             loc'[c].pc \in {"queryBridge", "queryRefund"} =>
                 /\ loc'[c].processed = 0
                 /\ loc'[c].evIdx = 0
                 /\ loc'[c].evLog = <<>>
                 /\ loc'[c].attempts = 0]_vars

\* the Refunded query failed after the BridgeInitiated query had found events
C12_Witness == last.op = "queryError" /\ last.scanned > 0

\* C13: timer callbacks do not overlap: at most one invocation of the
\* callback has work outstanding.
C13_TicksDoNotOverlap ==
    Cardinality({c \in Callbacks : loc[c].pc # "idle"}) <= 1

\* C14: when the insert of an initiation event is rejected because the
\* identifier already has a record, the event is skipped: the callback does
\* not go on to a payout attempt for it.
C14_ConflictSkipsPayout ==
    [][\A c \in Callbacks :
         (/\ loc[c].pc = "insert"
          /\ loc'[c] # loc[c]
          /\ last'.op = "insertError"
          /\ last'.prior # "absent") => loc'[c].pc # "payout"]_vars

\* C15: a record changes its status only from pending, and only to the
\* completed or the refunded status (whatever the casing of the literal the
\* update writes): a completed or refunded record keeps its status.  (A row
\* that clearFirst200 deletes has no status any more.)
C15_TerminalStatuses ==
    [][\A id \in DOMAIN store \cap DOMAIN store' :
         store'[id].status # store[id].status =>
               /\ store[id].status = "pending"
               /\ store'[id].status \in {"Completed", "completed", "refunded"}]_vars

\* the record-store statuses that project an L2 status
Projection(statusNum) ==
    CASE statusNum = StatusCompleted -> {"Completed", "completed"}
      [] statusNum = StatusRefunded  -> {"refunded"}
      [] OTHER                       -> {}

\* C16: for every identifier that has a record, once the L2 status is
\* Completed or Refunded (it then stays so) the status of the record
\* eventually is its projection, unless the record is deleted, when the
\* timer keeps firing and external calls eventually succeed.
C16_Converges ==
    \A id \in Ids :
        (id \in DOMAIN store /\ l2status[id] \in {StatusCompleted, StatusRefunded})
            ~> (id \in DOMAIN store => store[id].status \in Projection(l2status[id]))

\* ceil(n / 500)
CeilDiv(n, d) == (n + d - 1) \div d

\* qs is a split of from..to into ascending, contiguous sub-ranges of at
\* most 500 blocks each, as few as possible
Chunked(qs, from, to) ==
    /\ Len(qs) >= 1
    /\ qs[1][1] = from
    /\ qs[Len(qs)][2] = to
    /\ \A i \in 1..Len(qs) :
          /\ qs[i][1] <= qs[i][2]
          /\ qs[i][2] - qs[i][1] + 1 <= 500
    /\ \A i \in 1..(Len(qs) - 1) : qs[i + 1][1] = qs[i][2] + 1
    /\ Len(qs) = CeilDiv(to - from + 1, 500)

\* C17: the sub-queries a query loop has issued when it ends, for either
\* event kind and in either program, are ascending, contiguous and
\* non-overlapping, span at most 500 blocks each and cover exactly the
\* blocks from the first block of the scan (the cursor the loop read, plus
\* one; startingBlock in src/watcher.js) to the head of the tick; their
\* number is ceil(n/500).
C17_ChunkedScan ==
    last.op \in {"scanBridge", "scanRefund"} =>
        Chunked(last.queries, last.from, last.block)

\* a scan of 501 blocks was made with two sub-queries, the second of one block
C17_Witness ==
    /\ last.op = "scanBridge"
    /\ last.block - last.from + 1 = 501
    /\ Len(last.queries) = 2
    /\ last.queries[2][1] = last.queries[2][2]

\* C18: a tick that reads a head less than or equal to the cursor ends in
\* that step: it issues no log query, reads and writes no record, submits
\* no transaction and leaves the cursor unchanged; a tick that reads a
\* larger head goes on to its first log query.
C18_NoNewBlockNoOp ==
    [][\A c \in Callbacks :
         /\ (/\ loc[c].pc = "getBlockNumber"
             /\ loc'[c] # loc[c]
             /\ head <= lastCheckedBlock) =>
               /\ loc'[c].pc = "idle"
               /\ last'.tick \in {"return", "catch"}
               /\ last'.op = "none"
               /\ last'.scanned = 0
               /\ last'.processed = 0
               /\ UNCHANGED <<lastCheckedBlock, store, inserts, payouts,
                              completes, l2status, chain>>
         /\ (loc[c].pc = "getBlockNumber" /\ last'.tick = "return") =>
               last'.head <= lastCheckedBlock
         /\ loc'[c].pc \in {"queryBridge", "queryRefund"} =>
               loc'[c].currentBlock >= loc'[c].fromBlock]_vars

\* C19: the status column of every record is one of the strings pending,
\* completed, refunded.
C19_StatusValues ==
    \A id \in DOMAIN store :
        store[id].status \in {"pending", "completed", "refunded"}

\* C20: once a callback has inserted the record of an identifier and its
\* three payout attempts have failed, no payout and no completion call is
\* made for that identifier any more, and the status of its record changes
\* only by a refund update.  (Stated for the steps taken while that callback
\* is at the delay after the event.)
C20_StuckPending ==
    [][\A c \in Callbacks :
         LET l == loc[c]
             id == CurrentEvent(l).transferId IN
         (l.pc = "delay" /\ l.retryCount = 3 /\ "insert" \in Range(l.evLog)) =>
             /\ payouts'[id] = payouts[id]
             /\ completes'[id] = completes[id]
             /\ (/\ id \in DOMAIN store \cap DOMAIN store'
                 /\ store'[id].status # store[id].status) =>
                   last'.op = "refundUpdate"]_vars

\* C21: in the unified watcher+executor the completion step (read and
\* signature, guard read, complete call, record update) is entered only by
\* the step in which the wait for a payout of the same event resolved with
\* its receipt; a callback in the completion step holds that receipt, and a
\* failed attempt (rejected submission or rejected wait, the third one
\* included) never leads into it.
C21_CompletionAfterConfirmedPayout ==
    [][\A c \in Callbacks :
         LET l == loc[c]
             m == loc'[c] IN
         scope.program = "unified" =>
             /\ m.pc \in {"readTransfer", "sign", "doubleCheck", "complete",
                          "completeWait", "updateComplete"} =>
                   /\ m.payoutSuccess
                   /\ "payout" \in Range(m.evLog)
                   /\ m.payoutBlock >= ReceiptBlock(1)
             /\ (m.pc = "readTransfer" /\ l.pc # "readTransfer") =>
                   /\ l.pc = "payoutWait"
                   /\ ~l.payoutSuccess
                   /\ m.evLog = Append(l.evLog, "payout")
             /\ (l.pc \in {"payout", "payoutWait", "backoff"} /\ m # l
                    /\ ~m.payoutSuccess) =>
                   m.pc \in {"payout", "payoutWait", "backoff", "delay"}
             /\ ("complete" \in Range(m.evLog) \/ "update" \in Range(m.evLog)) =>
                   m.payoutSuccess]_vars

\* the complete call is about to be sent after a confirmed payout that was
\* the second one included for the transfer
C21_Witness ==
    \E c \in Callbacks :
        /\ loc[c].pc = "complete"
        /\ loc[c].payoutSuccess
        /\ loc[c].payoutBlock = ReceiptBlock(2)

\* C22: the block cursor never decreases.
C22_CursorMonotonic == [][lastCheckedBlock' >= lastCheckedBlock]_vars

\* C23: the L2 complete call is submitted at most once per transfer
\* identifier, and only while the L2 status of the transfer is Pending.
C23_CompleteOnceWhilePending ==
    [][\A id \in Ids :
         /\ completes'[id] <= 1
         /\ completes'[id] # completes[id] => l2status[id] = StatusPending]_vars

\* C24: no initiation event is lost: an identifier whose BridgeInitiated
\* event is on the chain is eventually inserted into the record store,
\* unless its L2 status leaves Pending, when the timer keeps firing and
\* external calls eventually succeed.
C24_NoEventLost ==
    \A id \in Ids :
        Initiated(id) ~> (id \in DOMAIN store \/ l2status[id] # StatusPending)

=============================================================================
